---- MODULE Spec2Model ----
(***************************************************************************)
(* Episode lifecycle and error recovery of the P3 podcast processor: the   *)
(* command handlers of p3/cli.py and the migration script                  *)
(* p3/migrate_db.py, over an episode store.  The store (p3/database.py)    *)
(* and the stage executors (p3/transcriber.py, p3/cleaner.py) are not part *)
(* of the sources at hand; their operations are modelled from the design   *)
(* document (sections 4.1 and 4.2) under the names the handlers call them  *)
(* by.                                                                     *)
(***************************************************************************)
EXTENDS Integers, Sequences, FiniteSets, TLC

\* ------------------------------------------------------------------ bounds

\* Episodes the store holds at most.
MaxEpisodes == 2

\* Failures recorded per episode at most (error_count itself is unbounded).
MaxErrors == 3

\* Executor invocations the scenario log holds at most.
MaxTrail == 4

\* The retry ceiling of the runs in which every batch has the same one.
FixedCeiling == 2

\* ------------------------------------------------------- program constants

\* --max-retries, default=3
DefaultMaxRetries == 3

\* `if episode_id:` - an absent --episode-id (None) and 0 are both falsy.
NoId == 0

NULL == "NULL"

Statuses == {"downloaded", "transcribed", "processed", "failed"}

\* A status outside the four values, as a database written before error
\* tracking may hold ("episodes that might be stuck").
StuckStatuses == {"stuck"}

ErrorColumns == {"error_count", "last_error", "error_timestamp"}

\* ------------------------------------------------------------ input values

\* The podcasts of the configured feeds.
PodcastTitles == <<"Example Show", "Tech Talk">>

\* The feeds publish in turn: the podcast of the episode with this id.
PodcastOf(id) == PodcastTitles[((id - 1) % Len(PodcastTitles)) + 1]

\* Values of --podcast; "" stands for the option left out (falsy as well).
PodcastFilters == {"", "Example Show", "show", "TECH", "e", "News"}

\* Reason strings a failing stage executor reports.
Reasons == {"timeout"}

\* The reasons of the scenario, where one failure follows another.
ScenarioReasons == {"timeout", "bad audio"}

\* Values of --reason; NULL: the option left out.
MarkReasons == {NULL, "unusable"}

\* The reading of the clock when a failure is recorded.
Times == {"t1"}

\* Values of --max-retries (click takes any integer).
RetryCeilings == {0, 1, DefaultMaxRetries}

Stages == {"transcribe", "digest"}

\* ------------------------------------------------------------------- text

\* The characters of the strings that are matched against each other.
Chars(s) ==
    CASE s = "Example Show" -> <<"E","x","a","m","p","l","e"," ","S","h","o","w">>
      [] s = "Tech Talk"    -> <<"T","e","c","h"," ","T","a","l","k">>
      [] s = "show"         -> <<"s","h","o","w">>
      [] s = "TECH"         -> <<"T","E","C","H">>
      [] s = "e"            -> <<"e">>
      [] s = "News"         -> <<"N","e","w","s">>
      [] OTHER              -> <<>>

\* str.lower() on one character.
LowerChar(c) ==
    CASE c = "E" -> "e" [] c = "S" -> "s" [] c = "T" -> "t"
      [] c = "C" -> "c" [] c = "H" -> "h" [] c = "N" -> "n"
      [] OTHER -> c

Lower(cs) == [i \in 1..Len(cs) |-> LowerChar(cs[i])]

\* `a in b` on strings: a occurs in b as a contiguous run of characters.
IsSubstring(a, b) ==
    \E k \in 0..(Len(b) - Len(a)) : SubSeq(b, k + 1, k + Len(a)) = a

\* podcast.lower() in e['podcast_title'].lower()
PodcastMatches(podcast, title) == IsSubstring(Lower(Chars(podcast)), Lower(Chars(title)))

\* ------------------------------------------------------------------ state

VARIABLES
    columns,    \* the error-tracking columns the episodes table has
    episodes,   \* the episodes table: episodes[id] is the row of episode id
    batch,      \* the stage batch run in progress, if any
    last,       \* the command that ran last, with what it reported
    trail       \* the executor's answers so far (kept by ScenarioSpec only)

vars == <<columns, episodes, batch, last, trail>>

Ids == 1..Len(episodes)

\* ------------------------------------------------------------ episode store

\* create(podcast_title, title, ...): status 'downloaded', error fields null.
NewEpisode(title) ==
    [podcast_title |-> title, status |-> "downloaded", error_count |-> 0,
     last_error |-> NULL, error_timestamp |-> NULL]

\* get(id): whether the point lookup finds a row.
get_episode_by_id(eps, id) == id \in 1..Len(eps)

RECURSIVE SelectIds(_, _, _)
\* The ids from..Len(eps) that are in kept, in insertion order.
SelectIds(eps, kept, from) ==
    IF from > Len(eps) THEN <<>>
    ELSE (IF from \in kept THEN <<from>> ELSE <<>>) \o SelectIds(eps, kept, from + 1)

\* list_by_status(status), in insertion order.
get_episodes_by_status(eps, status) ==
    SelectIds(eps, {i \in 1..Len(eps) : eps[i].status = status}, 1)

\* list_errored(): every episode with error_count > 0, whatever its status.
get_error_episodes(eps) ==
    SelectIds(eps, {i \in 1..Len(eps) : eps[i].error_count > 0}, 1)

\* record_success(id, new_status, artifact): the status is set, the error
\* fields stay.  The artifact is opaque to the lifecycle and kept outside the
\* episode row; it is not part of this model.
record_success(eps, id, new_status) ==
    [eps EXCEPT ![id].status = new_status]

\* record_failure(id, message): the status stays.
record_episode_error(eps, id, message, now) ==
    [eps EXCEPT ![id].error_count = @ + 1,
                ![id].last_error = message,
                ![id].error_timestamp = now]

\* reset_errors(id)
reset_episode_errors(eps, id) ==
    [eps EXCEPT ![id].error_count = 0,
                ![id].last_error = NULL,
                ![id].error_timestamp = NULL]

\* set_status(id, status)
update_episode_status(eps, id, status) ==
    [eps EXCEPT ![id].status = status]

\* Force-mark-processed of one episode: status = 'processed'.  The reason is an
\* informational note, kept outside the episode's status and error fields.
mark_episode_as_processed(eps, id, reason) ==
    [eps EXCEPT ![id].status = "processed"]

\* ------------------------------------------------------------------ stages

\* The status a stage consumes.
Precondition(stage) == IF stage = "transcribe" THEN "downloaded" ELSE "transcribed"

\* The status a stage's success sets.
NextStatus(stage) == IF stage = "transcribe" THEN "transcribed" ELSE "processed"

\* What a stage executor may answer: success, or failure with a reason, at some
\* reading of the clock.
OutcomesWith(reasons) ==
    [ok : {TRUE}, reason : {NULL}, now : {NULL}]
        \cup [ok : {FALSE}, reason : reasons, now : Times]

Outcomes == OutcomesWith(Reasons)

\* eligible(e) = (e.status == S) AND (e.error_count < R)
Eligible(e, stage, max_retries) ==
    e.status = Precondition(stage) /\ e.error_count < max_retries

\* One episode through one stage, as transcribe_episode(id, skip_errors) and
\* generate_summary(id, skip_errors) are called: what it answers.
\*   "notfound"  no such episode
\*   "ineligible" the status is not the stage's precondition (the re-check)
\*   "skipped"   skip_errors, and the episode has errors
\*   "success" / "failure"  the executor ran
StageAnswer(eps, stage, id, skip_errors, outcome) ==
    IF ~get_episode_by_id(eps, id) THEN "notfound"
    ELSE IF eps[id].status # Precondition(stage) THEN "ineligible"
    ELSE IF skip_errors /\ eps[id].error_count > 0 THEN "skipped"
    ELSE IF outcome.ok THEN "success" ELSE "failure"

\* ... and the store it leaves.
StageStore(eps, stage, id, skip_errors, outcome) ==
    LET answer == StageAnswer(eps, stage, id, skip_errors, outcome) IN
    IF answer = "success" THEN record_success(eps, id, NextStatus(stage))
    ELSE IF answer = "failure" THEN record_episode_error(eps, id, outcome.reason, outcome.now)
    ELSE eps

\* transcriber.transcribe_episode(episode_id, skip_errors=skip_errors)
transcribe_episode(eps, id, skip_errors, outcome) ==
    StageStore(eps, "transcribe", id, skip_errors, outcome)

\* cleaner.generate_summary(episode_id, skip_errors=skip_errors)
generate_summary(eps, id, skip_errors, outcome) ==
    StageStore(eps, "digest", id, skip_errors, outcome)

\* --------------------------------------------------------------- bookkeeping

NoBatch ==
    [pc |-> "idle", stage |-> NULL, queue |-> <<>>, skip_errors |-> FALSE,
     max_retries |-> 0, processed |-> 0, failed |-> 0, follows |-> FALSE,
     before |-> 0]

Idle == batch.pc = "idle"

\* Every command but the migration needs the migrated table.
Migrated == columns = ErrorColumns

\* What a command reports: its name, its flag (skip_errors, or reset_errors
\* for retry), how it ended and the number of episodes it reports as done.
Report(op, flag, out, n) ==
    [op |-> op, flag |-> flag, out |-> out, n |-> n,
     failed |-> 0, max_retries |-> 0, reason |-> NULL]

\* The name of a stage's batch command in the reports.
AllOf(stage) == IF stage = "transcribe" THEN "transcribe_all" ELSE "digest_all"

\* The report of a batch run that reached its end.
BatchReport(b) ==
    [op |-> AllOf(b.stage), flag |-> b.skip_errors, out |-> "done",
     n |-> b.processed, failed |-> b.failed, max_retries |-> b.max_retries,
     reason |-> NULL]

\* A failure is recorded only below the model's bound on error_count.
MayFail(eps, id, answer) == answer = "failure" => eps[id].error_count < MaxErrors

\* The executor's answers, in the order it gave them.
Logged(log, id, answer, outcome) ==
    IF answer \in {"success", "failure"}
    THEN Append(log, [id |-> id, ok |-> outcome.ok, reason |-> outcome.reason])
    ELSE log

\* -------------------------------------------------------------------- Init

\* The row of an episode in a database written before error tracking.
LegacyEpisode(title, status) == [NewEpisode(title) EXCEPT !.status = status]

LegacyStatuses == UNION {[1..n -> Statuses \cup StuckStatuses] : n \in 1..MaxEpisodes}

LegacyStores == {[id \in 1..Len(ss) |-> LegacyEpisode(PodcastOf(id), ss[id])] : ss \in LegacyStatuses}

\* A new, empty database, or one written before error tracking was added.
Init ==
    /\ \/ columns = ErrorColumns /\ episodes = <<>>
       \/ columns = {} /\ episodes \in LegacyStores
    /\ batch = NoBatch
    /\ last = Report("init", FALSE, "ok", 0)
    /\ trail = <<>>

\* ------------------------------------------------------------------- fetch

\* p3 fetch: the downloader ingests the new episodes of the feeds.
fetch ==
    /\ Migrated /\ Idle
    /\ \E new \in 1..(MaxEpisodes - Len(episodes)) :
          /\ episodes' = episodes \o [i \in 1..new |-> NewEpisode(PodcastOf(Len(episodes) + i))]
          /\ last' = Report("fetch", FALSE, "ok", new)
    /\ UNCHANGED <<columns, batch, trail>>

\* ----------------------------------------------------------------- migrate

\* A migration that adds the columns and leaves the statuses.
migrate_database_keeps_stuck(cols, eps) ==
    [i \in 1..Len(eps) |->
        [eps[i] EXCEPT
            !.error_count = IF "error_count" \notin cols THEN 0 ELSE @,
            !.last_error = IF "last_error" \notin cols THEN NULL ELSE @,
            !.error_timestamp = IF "error_timestamp" \notin cols THEN NULL ELSE @]]

\* A migration whose UPDATE has no WHERE clause.
migrate_database_resets_all(cols, eps) ==
    [i \in 1..Len(eps) |->
        [eps[i] EXCEPT
            !.error_count = IF "error_count" \notin cols THEN 0 ELSE @,
            !.last_error = IF "last_error" \notin cols THEN NULL ELSE @,
            !.error_timestamp = IF "error_timestamp" \notin cols THEN NULL ELSE @,
            !.status = "downloaded"]]

\* A migration that sets the error fields of every row to the defaults.
migrate_database_clears_errors(cols, eps) ==
    [i \in 1..Len(eps) |->
        [eps[i] EXCEPT
            !.error_count = 0,
            !.last_error = NULL,
            !.error_timestamp = NULL,
            !.status = IF @ \notin Statuses THEN "downloaded" ELSE @]]

\* ALTER TABLE episodes ADD COLUMN for each missing column, then the UPDATE
\* of the rows whose status is none of the four.
migrate_database(cols, eps) ==
    [i \in 1..Len(eps) |->
        [eps[i] EXCEPT
            !.error_count = IF "error_count" \notin cols THEN 0 ELSE @,
            !.last_error = IF "last_error" \notin cols THEN NULL ELSE @,
            !.error_timestamp = IF "error_timestamp" \notin cols THEN NULL ELSE @,
            !.status = IF @ \notin Statuses THEN "downloaded" ELSE @]]

\* python -m p3.migrate_db
Migrate ==
    /\ Idle
    /\ episodes' = migrate_database(columns, episodes)
    /\ columns' = columns \cup ErrorColumns
    /\ last' = Report("migrate", FALSE, "ok", 0)
    /\ UNCHANGED <<batch, trail>>

\* --------------------------------------------------------------- transcribe

\* A handler that clears the errors of an episode it has transcribed.
TranscribeOneOf_clears_errors(id, skip_errors, outcome) ==
    /\ Migrated /\ Idle
    /\ MayFail(episodes, id, StageAnswer(episodes, "transcribe", id, skip_errors, outcome))
    /\ episodes' = IF StageAnswer(episodes, "transcribe", id, skip_errors, outcome) = "success"
                   THEN reset_episode_errors(transcribe_episode(episodes, id, skip_errors, outcome), id)
                   ELSE transcribe_episode(episodes, id, skip_errors, outcome)
    /\ last' = Report("transcribe", skip_errors,
                      StageAnswer(episodes, "transcribe", id, skip_errors, outcome), 0)
    /\ UNCHANGED <<columns, batch>>

\* p3 transcribe --episode-id ID [--skip-errors]; --max-retries is not used
\* on this path.
TranscribeOneOf(id, skip_errors, outcome) ==
    /\ Migrated /\ Idle
    /\ MayFail(episodes, id, StageAnswer(episodes, "transcribe", id, skip_errors, outcome))
    /\ episodes' = transcribe_episode(episodes, id, skip_errors, outcome)
    /\ last' = Report("transcribe", skip_errors,
                      StageAnswer(episodes, "transcribe", id, skip_errors, outcome), 0)
    /\ UNCHANGED <<columns, batch>>

\* p3 transcribe --episode-id ID --max-retries R: the option is taken and is
\* not passed to transcribe_episode.
TranscribeOneWith(id, skip_errors, max_retries, outcome) ==
    TranscribeOneOf(id, skip_errors, outcome)

TranscribeOne ==
    /\ \E id \in 1..(Len(episodes) + 1), skip_errors \in BOOLEAN, outcome \in Outcomes :
          TranscribeOneOf(id, skip_errors, outcome)
    /\ UNCHANGED trail

\* The snapshot a batch takes of the rows it lists.
Snapshot(eps, ids) ==
    [i \in 1..Len(ids) |-> [id |-> ids[i], error_count |-> eps[ids[i]].error_count]]

\* The batch selection of the lifecycle controller: the rows in the stage's
\* precondition status, below the ceiling and, with skip_errors, without errors.
transcribe_selection(eps, skip_errors, max_retries) ==
    SelectIds(eps, {i \in 1..Len(eps) : /\ Eligible(eps[i], "transcribe", max_retries)
                                        /\ (skip_errors => eps[i].error_count = 0)}, 1)

\* A batch follows a run of the same stage and options that advanced every
\* episode it attempted, with no command in between.
Follows(stage, skip_errors, max_retries) ==
    /\ last.op = AllOf(stage) /\ last.out = "done" /\ last.failed = 0
    /\ last.flag = skip_errors /\ last.max_retries = max_retries

StartBatch(stage, queue, skip_errors, max_retries) ==
    [pc |-> "loop", stage |-> stage, queue |-> queue, skip_errors |-> skip_errors,
     max_retries |-> max_retries, processed |-> 0, failed |-> 0,
     follows |-> Follows(stage, skip_errors, max_retries),
     before |-> IF Follows(stage, skip_errors, max_retries) THEN last.n ELSE 0]

\* p3 transcribe [--skip-errors] [--max-retries R]: transcribe_all_pending
\* selects its batch.
TranscribeAllStartOf(skip_errors, max_retries) ==
    /\ Migrated /\ Idle
    /\ batch' = StartBatch("transcribe",
                           Snapshot(episodes, transcribe_selection(episodes, skip_errors, max_retries)),
                           skip_errors, max_retries)
    /\ last' = Report("transcribe_all", skip_errors, "started", 0)
    /\ UNCHANGED <<columns, episodes>>

TranscribeAllStart ==
    /\ \E skip_errors \in BOOLEAN, max_retries \in RetryCeilings :
          TranscribeAllStartOf(skip_errors, max_retries)
    /\ UNCHANGED trail

\* What transcribe_all_pending does with the next episode of its batch: the
\* eligibility is confirmed again before the executor is invoked.
transcribe_all_pending_answer(eps, id, skip_errors, max_retries, outcome) ==
    IF ~Eligible(eps[id], "transcribe", max_retries) THEN "ineligible"
    ELSE StageAnswer(eps, "transcribe", id, skip_errors, outcome)

\* ... and the store it leaves.
transcribe_all_pending(eps, id, skip_errors, max_retries, outcome) ==
    IF ~Eligible(eps[id], "transcribe", max_retries) THEN eps
    ELSE transcribe_episode(eps, id, skip_errors, outcome)

\* The counts of a batch after one more answer.
Counted(b, answer) ==
    [b EXCEPT !.queue = Tail(@),
              !.processed = IF answer = "success" THEN @ + 1 ELSE @,
              !.failed = IF answer # "success" THEN @ + 1 ELSE @]

TranscribeAllStepOf(outcome) ==
    /\ batch.pc = "loop" /\ batch.stage = "transcribe" /\ batch.queue # <<>>
    /\ LET id == Head(batch.queue).id
           answer == transcribe_all_pending_answer(episodes, id, batch.skip_errors,
                                                   batch.max_retries, outcome)
       IN /\ MayFail(episodes, id, answer)
          /\ episodes' = transcribe_all_pending(episodes, id, batch.skip_errors,
                                                batch.max_retries, outcome)
          /\ batch' = Counted(batch, answer)
          /\ last' = Report("transcribe_all", batch.skip_errors, answer, 0)
    /\ UNCHANGED columns

TranscribeAllStep ==
    /\ \E outcome \in Outcomes : TranscribeAllStepOf(outcome)
    /\ UNCHANGED trail

\* ------------------------------------------------------------------- digest

\* p3 digest --episode-id ID [--skip-errors]; --max-retries is not used on
\* this path.
DigestOneOf(id, skip_errors, outcome) ==
    /\ Migrated /\ Idle
    /\ MayFail(episodes, id, StageAnswer(episodes, "digest", id, skip_errors, outcome))
    /\ episodes' = generate_summary(episodes, id, skip_errors, outcome)
    /\ last' = Report("digest", skip_errors,
                      StageAnswer(episodes, "digest", id, skip_errors, outcome), 0)
    /\ UNCHANGED <<columns, batch>>

\* p3 digest --episode-id ID --max-retries R: the option is taken and is not
\* passed to generate_summary.
DigestOneWith(id, skip_errors, max_retries, outcome) ==
    DigestOneOf(id, skip_errors, outcome)

DigestOne ==
    /\ \E id \in 1..(Len(episodes) + 1), skip_errors \in BOOLEAN, outcome \in Outcomes :
          DigestOneOf(id, skip_errors, outcome)
    /\ UNCHANGED trail

\* episodes = db.get_episodes_by_status('transcribed')
digest_selection(eps) == get_episodes_by_status(eps, "transcribed")

\* p3 digest [--skip-errors] [--max-retries R]: the rows are listed; with none
\* the command ends at once.
DigestAllStartOf(skip_errors, max_retries) ==
    /\ Migrated /\ Idle
    /\ IF digest_selection(episodes) = <<>>
       THEN /\ last' = Report("digest_all", skip_errors, "none", 0)
            /\ batch' = batch
       ELSE /\ batch' = StartBatch("digest", Snapshot(episodes, digest_selection(episodes)),
                                   skip_errors, max_retries)
            /\ last' = Report("digest_all", skip_errors, "started", 0)
    /\ UNCHANGED <<columns, episodes>>

DigestAllStart ==
    /\ \E skip_errors \in BOOLEAN, max_retries \in RetryCeilings :
          DigestAllStartOf(skip_errors, max_retries)
    /\ UNCHANGED trail

\* A ceiling test that lets the episode at the ceiling through.
exceeded_max_retries_strict(episode, max_retries) == episode.error_count > max_retries

\* A loop without the ceiling test.
exceeded_max_retries_never(episode, max_retries) == FALSE

\* if episode.get('error_count', 0) >= max_retries: continue
exceeded_max_retries(episode, max_retries) == episode.error_count >= max_retries

\* One turn of the loop over the listed rows: what becomes of the row ...
digest_answer(eps, episode, skip_errors, max_retries, outcome) ==
    IF exceeded_max_retries(episode, max_retries) THEN "exceeded"
    ELSE StageAnswer(eps, "digest", episode.id, skip_errors, outcome)

\* A turn that calls generate_summary without the skip_errors flag.
digest_turn_never_skips(eps, episode, skip_errors, max_retries, outcome) ==
    IF exceeded_max_retries(episode, max_retries) THEN eps
    ELSE generate_summary(eps, episode.id, FALSE, outcome)

\* A turn that sets the episode 'failed' when a failure brings it to the ceiling.
digest_turn_marks_failed(eps, episode, skip_errors, max_retries, outcome) ==
    IF exceeded_max_retries(episode, max_retries) THEN eps
    ELSE LET after == generate_summary(eps, episode.id, skip_errors, outcome)
         IN IF /\ StageAnswer(eps, "digest", episode.id, skip_errors, outcome) = "failure"
               /\ after[episode.id].error_count >= max_retries
            THEN update_episode_status(after, episode.id, "failed")
            ELSE after

\* A turn that counts a failure twice.
digest_turn_counts_twice(eps, episode, skip_errors, max_retries, outcome) ==
    IF exceeded_max_retries(episode, max_retries) THEN eps
    ELSE LET after == generate_summary(eps, episode.id, skip_errors, outcome)
         IN IF StageAnswer(eps, "digest", episode.id, skip_errors, outcome) = "failure"
            THEN [after EXCEPT ![episode.id].error_count = @ + 1]
            ELSE after

\* ... and the store the turn leaves.
digest_turn(eps, episode, skip_errors, max_retries, outcome) ==
    IF exceeded_max_retries(episode, max_retries) THEN eps
    ELSE generate_summary(eps, episode.id, skip_errors, outcome)

\* A count that has no else branch.
digest_count_without_failed(b, answer) ==
    [b EXCEPT !.queue = Tail(@),
              !.processed = IF answer = "success" THEN @ + 1 ELSE @]

\* if result: processed += 1 / else: failed += 1
digest_count(b, answer) ==
    [b EXCEPT !.queue = Tail(@),
              !.processed = IF answer = "success" THEN @ + 1 ELSE @,
              !.failed = IF answer \notin {"success", "exceeded"} THEN @ + 1 ELSE @]

DigestAllStepOf(outcome) ==
    /\ batch.pc = "loop" /\ batch.stage = "digest" /\ batch.queue # <<>>
    /\ LET episode == Head(batch.queue)
           answer == digest_answer(episodes, episode, batch.skip_errors,
                                   batch.max_retries, outcome)
       IN /\ MayFail(episodes, episode.id, answer)
          /\ episodes' = digest_turn(episodes, episode, batch.skip_errors,
                                     batch.max_retries, outcome)
          /\ batch' = digest_count(batch, answer)
          /\ last' = Report("digest_all", batch.skip_errors, answer, 0)
    /\ UNCHANGED columns

DigestAllStep ==
    /\ \E outcome \in Outcomes : DigestAllStepOf(outcome)
    /\ UNCHANGED trail

\* The batch has gone through its rows: the counts are reported.
BatchEnd ==
    /\ batch.pc = "loop" /\ batch.queue = <<>>
    /\ last' = BatchReport(batch)
    /\ batch' = NoBatch
    /\ UNCHANGED <<columns, episodes, trail>>

\* The process of a batch run is terminated between two episodes.
Terminate ==
    /\ batch.pc = "loop" /\ batch.queue # <<>>
    /\ last' = Report(AllOf(batch.stage), batch.skip_errors, "terminated", batch.processed)
    /\ batch' = NoBatch
    /\ UNCHANGED <<columns, episodes, trail>>

\* ----------------------------------------------------------- mark-processed

\* A loop that marks the first episode found and stops.
MarkEach_first_only(eps, ids, reason) ==
    IF ids = <<>> THEN eps
    ELSE mark_episode_as_processed(eps, Head(ids), reason)

RECURSIVE MarkEach(_, _, _)
\* for ep in podcast_episodes: db.mark_episode_as_processed(ep['id'], reason)
MarkEach(eps, ids, reason) ==
    IF ids = <<>> THEN eps
    ELSE MarkEach(mark_episode_as_processed(eps, Head(ids), reason), Tail(ids), reason)

\* A filter over all the episodes instead of the episodes with errors.
podcast_episodes_of_all(eps, podcast) ==
    SelectIds(eps, {i \in 1..Len(eps) : PodcastMatches(podcast, eps[i].podcast_title)}, 1)

\* [e for e in error_episodes if podcast.lower() in e['podcast_title'].lower()]
podcast_episodes(eps, podcast) ==
    LET error_episodes == get_error_episodes(eps)
        matches(id) == PodcastMatches(podcast, eps[id].podcast_title)
    IN SelectSeq(error_episodes, matches)

\* A handler that keeps the reason of a marked episode in last_error.
mark_processed_records_reason(eps, episode_id, podcast, reason) ==
    IF episode_id # NoId
    THEN IF ~get_episode_by_id(eps, episode_id) THEN eps
         ELSE [mark_episode_as_processed(eps, episode_id, reason)
                  EXCEPT ![episode_id].last_error = IF reason # NULL THEN reason ELSE @]
    ELSE IF podcast # ""
    THEN MarkEach(eps, podcast_episodes(eps, podcast), reason)
    ELSE eps

\* The store mark_processed leaves.
mark_processed(eps, episode_id, podcast, reason) ==
    IF episode_id # NoId
    THEN IF ~get_episode_by_id(eps, episode_id) THEN eps
         ELSE mark_episode_as_processed(eps, episode_id, reason)
    ELSE IF podcast # ""
    THEN MarkEach(eps, podcast_episodes(eps, podcast), reason)
    ELSE eps

\* What mark_processed reports: how it ended, the number of episodes it names
\* as marked and, for a marked episode, the reason it prints.
mark_processed_report(eps, episode_id, podcast, reason) ==
    IF episode_id # NoId
    THEN IF ~get_episode_by_id(eps, episode_id) THEN Report("mark_processed", FALSE, "notfound", 0)
         ELSE [Report("mark_processed", FALSE, "marked", 1) EXCEPT !.reason = reason]
    ELSE IF podcast # ""
    THEN IF podcast_episodes(eps, podcast) = <<>>
         THEN Report("mark_processed", FALSE, "none", 0)
         ELSE Report("mark_processed", FALSE, "marked_podcast", Len(podcast_episodes(eps, podcast)))
    ELSE Report("mark_processed", FALSE, "usage", 0)

\* p3 mark-processed [--episode-id ID] [--podcast NAME] [--reason TEXT]
MarkProcessedOf(episode_id, podcast, reason) ==
    /\ Migrated /\ Idle
    /\ episodes' = mark_processed(episodes, episode_id, podcast, reason)
    /\ last' = mark_processed_report(episodes, episode_id, podcast, reason)
    /\ UNCHANGED <<columns, batch, trail>>

MarkProcessed ==
    \E episode_id \in 0..(Len(episodes) + 1), reason \in MarkReasons :
       \E podcast \in IF episode_id = NoId THEN PodcastFilters ELSE {"", "show"} :
          MarkProcessedOf(episode_id, podcast, reason)

\* -------------------------------------------------------------------- retry

\* A reset that clears the count and leaves the message and its time.
retry_episode_count_only(eps, id, reset_errors) ==
    update_episode_status(IF reset_errors THEN [eps EXCEPT ![id].error_count = 0] ELSE eps,
                          id, "downloaded")

\* A retry that does not look at reset_errors.
retry_episode_keeps_errors(eps, id, reset_errors) ==
    update_episode_status(eps, id, "downloaded")

\* A retry that resets the errors whether asked to or not.
retry_episode_always_resets(eps, id, reset_errors) ==
    update_episode_status(reset_episode_errors(eps, id), id, "downloaded")

\* if reset_errors: db.reset_episode_errors(id)
\* db.update_episode_status(id, 'downloaded')
retry_episode(eps, id, reset_errors) ==
    update_episode_status(IF reset_errors THEN reset_episode_errors(eps, id) ELSE eps,
                          id, "downloaded")

RECURSIVE RetryEach_skips_processed(_, _, _)
\* A loop that passes over the episodes that are 'processed'.
RetryEach_skips_processed(eps, ids, reset_errors) ==
    IF ids = <<>> THEN eps
    ELSE RetryEach_skips_processed(IF eps[Head(ids)].status = "processed" THEN eps
                                   ELSE retry_episode(eps, Head(ids), reset_errors),
                                   Tail(ids), reset_errors)

RECURSIVE RetryEach(_, _, _)
\* for ep in error_episodes: ...
RetryEach(eps, ids, reset_errors) ==
    IF ids = <<>> THEN eps
    ELSE RetryEach(retry_episode(eps, Head(ids), reset_errors), Tail(ids), reset_errors)

\* A retry that takes the lack of a selector for --all.
retry_defaults_to_all(eps, episode_id, all, reset_errors) ==
    IF episode_id # NoId
    THEN IF ~get_episode_by_id(eps, episode_id) THEN eps
         ELSE retry_episode(eps, episode_id, reset_errors)
    ELSE RetryEach(eps, get_error_episodes(eps), reset_errors)

\* The store retry leaves.
retry(eps, episode_id, all, reset_errors) ==
    IF episode_id # NoId
    THEN IF ~get_episode_by_id(eps, episode_id) THEN eps
         ELSE retry_episode(eps, episode_id, reset_errors)
    ELSE IF all
    THEN RetryEach(eps, get_error_episodes(eps), reset_errors)
    ELSE eps

\* What retry reports.
retry_report(eps, episode_id, all, reset_errors) ==
    IF episode_id # NoId
    THEN IF ~get_episode_by_id(eps, episode_id) THEN Report("retry", reset_errors, "notfound", 0)
         ELSE Report("retry", reset_errors, "ready", 1)
    ELSE IF all
    THEN IF get_error_episodes(eps) = <<>>
         THEN Report("retry", reset_errors, "none", 0)
         ELSE Report("retry", reset_errors, "reset", Len(get_error_episodes(eps)))
    ELSE Report("retry", reset_errors, "usage", 0)

\* p3 retry [--episode-id ID] [--all] [--reset-errors]
RetryOf(episode_id, all, reset_errors) ==
    /\ Migrated /\ Idle
    /\ episodes' = retry(episodes, episode_id, all, reset_errors)
    /\ last' = retry_report(episodes, episode_id, all, reset_errors)
    /\ UNCHANGED <<columns, batch, trail>>

Retry ==
    \E episode_id \in 0..(Len(episodes) + 1), all \in BOOLEAN, reset_errors \in BOOLEAN :
       RetryOf(episode_id, all, reset_errors)

\* p3 retry --podcast NAME: retry declares --episode-id, --all and
\* --reset-errors only; the option parser refuses any other option and the
\* handler does not run.
RetryPodcastOf(podcast) ==
    /\ Migrated /\ Idle
    /\ last' = Report("retry", FALSE, "no such option", 0)
    /\ UNCHANGED <<columns, episodes, batch, trail>>

RetryPodcast == \E podcast \in PodcastFilters \ {""} : RetryPodcastOf(podcast)

\* ---------------------------------------------------------- export, write

\* Values of --date; NULL: the option left out.
Dates == {NULL, "2024-01-15", "2024-2-29", "2023-02-29", "2024-13-01", "15/01/2024", "2024-01"}

\* The characters of a --date value.
DateChars(s) ==
    CASE s = "2024-01-15" -> <<"2","0","2","4","-","0","1","-","1","5">>
      [] s = "2024-2-29"  -> <<"2","0","2","4","-","2","-","2","9">>
      [] s = "2023-02-29" -> <<"2","0","2","3","-","0","2","-","2","9">>
      [] s = "2024-13-01" -> <<"2","0","2","4","-","1","3","-","0","1">>
      [] s = "15/01/2024" -> <<"1","5","/","0","1","/","2","0","2","4">>
      [] s = "2024-01"    -> <<"2","0","2","4","-","0","1">>
      [] OTHER            -> <<>>

Digits == <<"0","1","2","3","4","5","6","7","8","9">>

IsDigit(c) == \E d \in 1..Len(Digits) : Digits[d] = c

DigitValue(c) == (CHOOSE d \in 1..Len(Digits) : Digits[d] = c) - 1

RECURSIVE Number(_)
\* The number a run of digits writes.
Number(cs) ==
    IF cs = <<>> THEN 0
    ELSE Number(SubSeq(cs, 1, Len(cs) - 1)) * 10 + DigitValue(cs[Len(cs)])

RECURSIVE Fields(_)
\* The runs of characters between the dashes.
Fields(cs) ==
    IF \A i \in 1..Len(cs) : cs[i] # "-" THEN <<cs>>
    ELSE LET k == CHOOSE i \in 1..Len(cs) : cs[i] = "-" /\ \A j \in 1..(i - 1) : cs[j] # "-"
         IN <<SubSeq(cs, 1, k - 1)>> \o Fields(SubSeq(cs, k + 1, Len(cs)))

IsLeap(year) == (year % 4 = 0 /\ year % 100 # 0) \/ year % 400 = 0

DaysInMonth(year, month) ==
    IF month = 2 THEN (IF IsLeap(year) THEN 29 ELSE 28)
    ELSE IF month \in {4, 6, 9, 11} THEN 30 ELSE 31

\* datetime.strptime(date, '%Y-%m-%d') does not raise ValueError: four digits
\* of year, one or two of month and of day, and a day the month has.
strptime(date) ==
    LET f == Fields(DateChars(date))
    IN /\ Len(f) = 3
       /\ \A i \in 1..3 : f[i] # <<>> /\ \A j \in 1..Len(f[i]) : IsDigit(f[i][j])
       /\ Len(f[1]) = 4 /\ Len(f[2]) <= 2 /\ Len(f[3]) <= 2
       /\ Number(f[1]) >= 1
       /\ Number(f[2]) \in 1..12
       /\ Number(f[3]) \in 1..DaysInMonth(Number(f[1]), Number(f[2]))

\* What export and write report: the date is refused, or there are no
\* summaries for the day, or the files are written.  The summaries are read;
\* no episode is written.
date_report(op, date, found) ==
    IF date # NULL /\ ~strptime(date) THEN Report(op, FALSE, "invalid date", 0)
    ELSE IF ~found THEN Report(op, FALSE, "none", 0)
    ELSE Report(op, FALSE, "written", 0)

\* p3 export [--date D]
ExportOf(date, found) ==
    /\ Migrated /\ Idle
    /\ last' = date_report("export", date, found)
    /\ UNCHANGED <<columns, episodes, batch, trail>>

Export == \E date \in Dates, found \in BOOLEAN : ExportOf(date, found)

\* p3 write --topic T [--date D]
WriteOf(date, found) ==
    /\ Migrated /\ Idle
    /\ last' = date_report("write", date, found)
    /\ UNCHANGED <<columns, episodes, batch, trail>>

Write == \E date \in Dates, found \in BOOLEAN : WriteOf(date, found)

\* ------------------------------------------------------------------ status

\* statuses = ['downloaded', 'transcribed', 'processed', 'failed']
statuses == <<"downloaded", "transcribed", "processed", "failed">>

\* The table of the status report: a row for each list it has read, in the
\* order it read them, and at the end the number of episodes with errors.
\* The report keeps its table in the log.
TableRow(status, count) == [status |-> status, count |-> count]

\* The list the report reads next: the first when no report is under way.
NextRead == IF Len(trail) > Len(statuses) THEN 1 ELSE Len(trail) + 1

\* counts[status] = len(db.get_episodes_by_status(status)): one query, and
\* nothing written.
StatusRead ==
    /\ Migrated
    /\ NextRead <= Len(statuses)
    /\ trail' = (IF NextRead = 1 THEN <<>> ELSE trail)
                    \o <<TableRow(statuses[NextRead],
                                  Len(get_episodes_by_status(episodes, statuses[NextRead])))>>
    /\ UNCHANGED <<columns, episodes, batch, last>>

RECURSIVE Total(_)
\* The sum of the counts of a table.
Total(table) == IF table = <<>> THEN 0 ELSE Head(table).count + Total(Tail(table))

\* error_count = len(db.get_error_episodes()), and the table is printed.
StatusPrint ==
    /\ Migrated
    /\ Len(trail) = Len(statuses)
    /\ trail' = Append(trail, TableRow("errors", Len(get_error_episodes(episodes))))
    /\ last' = Report("status", FALSE,
                      IF get_error_episodes(episodes) # <<>> THEN "errors" ELSE "ok",
                      Total(trail))
    /\ UNCHANGED <<columns, episodes, batch>>

\* ---------------------------------------------------------- specifications

Next ==
    \/ fetch
    \/ Migrate
    \/ TranscribeOne
    \/ TranscribeAllStart
    \/ TranscribeAllStep
    \/ DigestOne
    \/ DigestAllStart
    \/ DigestAllStep
    \/ BatchEnd
    \/ Terminate
    \/ MarkProcessed
    \/ Retry
    \/ RetryPodcast
    \/ Export
    \/ Write

\* The commands, one at a time.
Spec == Init /\ [][Next]_vars

\* The transcription of newly fetched episodes, with the executor's answers
\* logged.
ScenarioTranscribeOne ==
    \E id \in 1..(Len(episodes) + 1), skip_errors \in BOOLEAN, outcome \in OutcomesWith(ScenarioReasons) :
       /\ TranscribeOneOf(id, skip_errors, outcome)
       /\ trail' = Logged(trail, id, last'.out, outcome)
       /\ Len(trail') <= MaxTrail

ScenarioTranscribeAllStep ==
    \E outcome \in OutcomesWith(ScenarioReasons) :
       /\ TranscribeAllStepOf(outcome)
       /\ trail' = Logged(trail, Head(batch.queue).id, last'.out, outcome)
       /\ Len(trail') <= MaxTrail

ScenarioInit ==
    /\ columns = ErrorColumns /\ episodes = <<>>
    /\ batch = NoBatch
    /\ last = Report("init", FALSE, "ok", 0)
    /\ trail = <<>>

ScenarioNext ==
    \/ fetch
    \/ ScenarioTranscribeOne
    \/ TranscribeAllStart
    \/ ScenarioTranscribeAllStep
    \/ BatchEnd

ScenarioSpec == ScenarioInit /\ [][ScenarioNext]_vars

\* Batch runs of both stages, all with the one ceiling, and no other command
\* than fetch; the executor's answers are logged.
CeilingTranscribeStart ==
    /\ \E skip_errors \in BOOLEAN : TranscribeAllStartOf(skip_errors, FixedCeiling)
    /\ UNCHANGED trail

CeilingDigestStart ==
    /\ \E skip_errors \in BOOLEAN : DigestAllStartOf(skip_errors, FixedCeiling)
    /\ UNCHANGED trail

CeilingDigestStep ==
    \E outcome \in Outcomes :
       /\ DigestAllStepOf(outcome)
       /\ trail' = Logged(trail, Head(batch.queue).id, last'.out, outcome)
       /\ Len(trail') <= MaxTrail

CeilingNext ==
    \/ fetch
    \/ CeilingTranscribeStart
    \/ ScenarioTranscribeAllStep
    \/ CeilingDigestStart
    \/ CeilingDigestStep
    \/ BatchEnd

CeilingSpec == ScenarioInit /\ [][CeilingNext]_vars

\* Batch runs that may be terminated and run again.  In these runs the log
\* keeps, in place of the executor's answers, the store as the last batch
\* found it; the single-episode commands bring episodes with errors about.
ResumeTranscribeStart ==
    /\ \E skip_errors \in BOOLEAN, max_retries \in RetryCeilings :
          TranscribeAllStartOf(skip_errors, max_retries)
    /\ trail' = episodes

ResumeDigestStart ==
    /\ \E skip_errors \in BOOLEAN, max_retries \in RetryCeilings :
          DigestAllStartOf(skip_errors, max_retries)
    /\ trail' = episodes

ResumeNext ==
    \/ fetch
    \/ TranscribeOne
    \/ DigestOne
    \/ ResumeTranscribeStart
    \/ TranscribeAllStep
    \/ ResumeDigestStart
    \/ DigestAllStep
    \/ BatchEnd
    \/ Terminate

ResumeSpec == ScenarioInit /\ [][ResumeNext]_vars

\* What a row holds in a column the table does not have.
NoCount == -1

NoText == "no column"

\* The rows of a table that has the columns cols of the three: a status of the
\* four or another, and in the columns it has, no error or one.
TableRows(cols, title) ==
    {row \in [podcast_title : {title},
              status : Statuses \cup StuckStatuses,
              error_count : IF "error_count" \in cols THEN 0..1 ELSE {NoCount},
              last_error : IF "last_error" \in cols THEN Reasons \cup {NULL} ELSE {NoText},
              error_timestamp : IF "error_timestamp" \in cols THEN Times \cup {NULL} ELSE {NoText}] :
        /\ row.error_count = 0 => row.last_error \in {NULL, NoText}
        /\ row.error_count = 0 => row.error_timestamp \in {NULL, NoText}
        /\ row.error_count = 1 => row.last_error # NULL /\ row.error_timestamp # NULL
        /\ (row.last_error = NULL) = (row.error_timestamp = NULL)
              \/ NoText \in {row.last_error, row.error_timestamp}}

Tables(cols) ==
    UNION {{eps \in [1..n -> UNION {TableRows(cols, PodcastOf(id)) : id \in 1..n}] :
               \A id \in 1..n : eps[id].podcast_title = PodcastOf(id)} : n \in 1..MaxEpisodes}

\* The migration run on a database with none, some or all of the three
\* columns, and run again.
MigrationInit ==
    /\ columns \in SUBSET ErrorColumns
    /\ episodes \in Tables(columns)
    /\ batch = NoBatch
    /\ last = Report("init", FALSE, "ok", 0)
    /\ trail = <<>>

MigrationNext == Migrate

MigrationSpec == MigrationInit /\ [][MigrationNext]_vars

\* The recovery commands on a migrated database whose episodes are in any of
\* the four statuses, with an error or without.
RecoveryInit ==
    /\ columns = ErrorColumns
    /\ episodes \in {eps \in Tables(ErrorColumns) :
                         \A id \in 1..Len(eps) : eps[id].status \in Statuses}
    /\ batch = NoBatch
    /\ last = Report("init", FALSE, "ok", 0)
    /\ trail = <<>>

RecoveryNext ==
    \/ MarkProcessed
    \/ Retry

RecoverySpec == RecoveryInit /\ [][RecoveryNext]_vars

\* p3 status in one process, while another runs stage batches, all with the
\* one ceiling, and retry on the same store: each query of the report and
\* each write of the other process is one step, in any order.  The episodes
\* are fetched before the first report.
StatusFetch == trail = <<>> /\ fetch

StatusNext ==
    \/ StatusFetch
    \/ StatusRead
    \/ StatusPrint
    \/ CeilingTranscribeStart
    \/ TranscribeAllStep
    \/ CeilingDigestStart
    \/ DigestAllStep
    \/ BatchEnd
    \/ Retry

StatusSpec == ScenarioInit /\ [][StatusNext]_vars

\* -------------------------------------------------------------- properties

\* The elements of a sequence.
Range(seq) == {seq[i] : i \in 1..Len(seq)}

StageOps == {"transcribe", "digest", "transcribe_all", "digest_all"}

\* The executor was invoked in the step that gave this report.
Invoked(report) == report.op \in StageOps /\ report.out \in {"success", "failure"}

ErrorFieldsNull(e) == e.last_error = NULL /\ e.error_timestamp = NULL

SameErrorFields(e, f) ==
    /\ e.error_count = f.error_count
    /\ e.last_error = f.last_error
    /\ e.error_timestamp = f.error_timestamp

\* C1: wherever the error columns exist, every episode has error_count = 0
\* exactly when its last_error and its error_timestamp are both null.
C1_ErrorFieldsConsistent ==
    Migrated => \A id \in Ids :
        (episodes[id].error_count = 0) <=> ErrorFieldsNull(episodes[id])

\* A failure has just been recorded next to an episode without errors.
C1_Witness ==
    /\ Migrated /\ last.out = "failure"
    /\ \E id \in Ids : episodes[id].error_count = MaxErrors /\ ~ErrorFieldsNull(episodes[id])
    /\ \E id \in Ids : episodes[id].error_count = 0 /\ episodes[id].status = "processed"

\* The executor's answers for one episode.
TrailOf(id) == SelectSeq(trail, LAMBDA ev : ev.id = id)

\* C2: a newly fetched episode ('downloaded', error_count 0) whose
\* transcription fails twice and then succeeds ends 'transcribed' with
\* error_count 2 and the second failure's message as last_error; while it only
\* failed, it stayed 'downloaded' with one more error per failure and the
\* latest message; its status is never 'failed'.
C2_FailTwiceThenSucceed ==
    \A id \in Ids :
        LET t == TrailOf(id)
            e == episodes[id]
        IN /\ e.status # "failed"
           /\ (t # <<>> /\ \A i \in 1..Len(t) : ~t[i].ok)
                 => /\ e.status = "downloaded"
                    /\ e.error_count = Len(t)
                    /\ e.last_error = t[Len(t)].reason
           /\ (Len(t) = 3 /\ ~t[1].ok /\ ~t[2].ok /\ t[3].ok)
                 => /\ e.status = "transcribed"
                    /\ e.error_count = 2
                    /\ e.last_error = t[2].reason

\* Two failures with different messages, then a success.
C2_Witness ==
    \E id \in Ids :
        LET t == TrailOf(id)
        IN /\ Len(t) = 3 /\ ~t[1].ok /\ ~t[2].ok /\ t[3].ok
           /\ t[1].reason # t[2].reason
           /\ episodes[id].status = "transcribed"

\* During a batch run with a ceiling of at least atLeast, an episode at or
\* above the ceiling is not in a transcribe selection, is not passed to the
\* executor, is left as it is and is in the errored listing.
CeilingExcludes(atLeast) ==
    (batch.pc = "loop" /\ batch.max_retries >= atLeast) =>
        \A id \in Ids :
            episodes[id].error_count >= batch.max_retries =>
                /\ episodes'[id] = episodes[id]
                /\ id \in Range(get_error_episodes(episodes'))
                /\ batch.stage = "transcribe" => \A i \in 1..Len(batch.queue) : batch.queue[i].id # id
                /\ (batch.queue # <<>> /\ Head(batch.queue).id = id) => ~Invoked(last')

\* C3, as amended: in a batch run with a retry ceiling R >= 1, an episode
\* with error_count >= R is not passed to the executor, also when its status
\* is the stage's precondition status; the batch leaves it unchanged and it
\* is in the errored listing.
C3_CeilingExcludes == [][CeilingExcludes(1)]_vars

\* C3 as stated, for every ceiling R.
C3_AnyCeiling == [][CeilingExcludes(0)]_vars

\* A digest batch with the default ceiling has just passed over a
\* 'transcribed' episode that has reached it.
C3_Witness ==
    /\ batch.pc = "loop" /\ batch.max_retries = DefaultMaxRetries
    /\ last.op = "digest_all" /\ last.out = "exceeded"
    /\ \E id \in Ids : /\ episodes[id].status = "transcribed"
                       /\ episodes[id].error_count >= DefaultMaxRetries

Rewound(e) ==
    [e EXCEPT !.status = "downloaded", !.error_count = 0,
              !.last_error = NULL, !.error_timestamp = NULL]

\* C5: retry of an existing episode with reset_errors, alone or with --all,
\* leaves it 'downloaded' with error_count 0 and null last_error and
\* error_timestamp, whatever its status and error fields were, and reports it
\* ready.
C5_RetryResetRoundTrip ==
    Migrated => \A id \in Ids, all \in BOOLEAN :
        LET e == retry(episodes, id, all, TRUE)[id]
        IN /\ e.status = "downloaded"
           /\ e.error_count = 0
           /\ ErrorFieldsNull(e)
           /\ e = Rewound(episodes[id])
           /\ retry_report(episodes, id, all, TRUE).out = "ready"

\* retry --episode-id ID --reset-errors has just run, beside an episode with
\* errors.
C5_Witness ==
    /\ last.op = "retry" /\ last.flag /\ last.out = "ready"
    /\ \E id \in Ids : episodes[id] = Rewound(episodes[id])
    /\ \E id \in Ids : episodes[id].error_count > 0

\* C6: mark-processed, by episode id or by podcast, with or without a reason,
\* changes nothing of an episode but its status, and that to 'processed'
\* only: error_count, last_error and error_timestamp stay, and the reason is
\* not written into last_error.
C6_MarkKeepsErrorFields ==
    [][last'.op = "mark_processed" =>
          /\ Len(episodes') = Len(episodes)
          /\ \A id \in Ids :
                /\ SameErrorFields(episodes'[id], episodes[id])
                /\ episodes'[id].last_error \notin MarkReasons \ {NULL}
                /\ episodes'[id] \in {episodes[id], [episodes[id] EXCEPT !.status = "processed"]}
          /\ last'.out \in {"marked", "marked_podcast"} =>
                \E id \in Ids : episodes'[id].status = "processed"]_vars

\* An episode with errors has just been marked processed, with a reason.
C6_Witness ==
    /\ last.op = "mark_processed" /\ last.out = "marked" /\ last.reason # NULL
    /\ \E id \in Ids : /\ episodes[id].status = "processed"
                       /\ episodes[id].error_count > 0
                       /\ episodes[id].last_error \in Reasons

\* No episode with errors has a podcast title the filter matches.
NoErroredMatch(podcast) ==
    \A id \in Ids :
        episodes[id].error_count > 0 => ~PodcastMatches(podcast, episodes[id].podcast_title)

C8_NoStageSetsFailed ==
    [][/\ \A id \in Ids :
             episodes[id].status # "failed" => episodes'[id].status # "failed"
       /\ (Invoked(last') /\ last'.out = "failure") =>
             /\ Len(episodes') = Len(episodes)
             /\ Cardinality({id \in Ids : episodes'[id] # episodes[id]}) = 1
             /\ \A id \in Ids :
                   episodes'[id] # episodes[id] =>
                      /\ episodes'[id].status = episodes[id].status
                      /\ episodes'[id].error_count = episodes[id].error_count + 1]_vars

\* A failure in a digest batch has just brought a 'transcribed' episode to
\* the ceiling of the run.
C8_Witness ==
    /\ batch.pc = "loop" /\ last.op = "digest_all" /\ last.out = "failure"
    /\ \E id \in Ids : /\ episodes[id].status = "transcribed"
                       /\ episodes[id].error_count = batch.max_retries

\* The place of a status in the pipeline order; 0: not in it.
Rank(status) ==
    CASE status = "downloaded" -> 1
      [] status = "transcribed" -> 2
      [] status = "processed" -> 3
      [] OTHER -> 0

\* C9: a step that changes an episode's status is a stage success that moves
\* it one place forward in downloaded -> transcribed -> processed, or a
\* recovery operation: retry, which sets 'downloaded', mark-processed, which
\* sets 'processed', or the migration, which sets 'downloaded' where the
\* status was none of the four.  Only retry moves a status backward in the
\* pipeline order.
C9_StatusMonotonic ==
    [][\A id \in Ids :
          LET s == episodes[id].status
              t == episodes'[id].status
          IN s # t =>
               /\ \/ Invoked(last') /\ last'.out = "success" /\ Rank(s) >= 1 /\ Rank(t) = Rank(s) + 1
                  \/ last'.op = "retry" /\ t = "downloaded"
                  \/ last'.op = "mark_processed" /\ t = "processed"
                  \/ last'.op = "migrate" /\ s \notin Statuses /\ t = "downloaded"
               /\ (Rank(s) >= 1 /\ Rank(t) >= 1 /\ Rank(t) < Rank(s)) => last'.op = "retry"]_vars

\* retry --all has just rewound an episode with errors, beside a 'processed'
\* episode without.
C9_Witness ==
    /\ last.op = "retry" /\ last.out = "reset" /\ ~last.flag
    /\ \E id \in Ids : episodes[id].status = "downloaded" /\ episodes[id].error_count > 0
    /\ \E id \in Ids : episodes[id].status = "processed" /\ episodes[id].error_count = 0

\* C10: a stage command run with skip_errors, for one episode or for a batch,
\* leaves every episode with error_count > 0 as it is, whatever the ceiling.
C10_SkipErrorsSkips ==
    [][(last'.op \in StageOps /\ last'.flag) =>
          \A id \in Ids :
              episodes[id].error_count > 0 => episodes'[id] = episodes[id]]_vars

\* A digest batch with skip_errors and the default ceiling has just skipped a
\* 'transcribed' episode with errors below the ceiling.
C10_Witness ==
    /\ batch.pc = "loop" /\ batch.skip_errors /\ batch.max_retries = DefaultMaxRetries
    /\ last.op = "digest_all" /\ last.out = "skipped"
    /\ \E id \in Ids : /\ episodes[id].status = "transcribed"
                       /\ episodes[id].error_count > 0
                       /\ episodes[id].error_count < batch.max_retries

\* A step of a running batch to its next episode.
BatchStep == batch.pc = "loop" /\ batch'.pc = "loop"

\* The episode is eligible for the stage under the options of a run.
EligibleFor(e, stage, skip_errors, max_retries) ==
    Eligible(e, stage, max_retries) /\ (skip_errors => e.error_count = 0)

\* C11: in a batch run every step goes to one episode of the selection and
\* changes no other; an eligible episode is attempted; a success advances the
\* episode and counts one succeeded, a failure leaves its status, adds one to
\* its error_count and counts one failed, and nothing else is counted; the
\* counts reported at the end are these counts.
C11_PartialProgress ==
    [][/\ BatchStep =>
            LET id == Head(batch.queue).id
            IN /\ \A other \in Ids \ {id} : episodes'[other] = episodes[other]
               /\ \A i \in 2..Len(batch.queue) : batch.queue[i].id # id
               /\ EligibleFor(episodes[id], batch.stage, batch.skip_errors, batch.max_retries)
                     => Invoked(last')
               /\ batch'.processed = batch.processed + (IF last'.out = "success" THEN 1 ELSE 0)
               /\ batch'.failed = batch.failed + (IF last'.out = "failure" THEN 1 ELSE 0)
               /\ last'.out = "success" =>
                     episodes'[id] = [episodes[id] EXCEPT !.status = NextStatus(batch.stage)]
               /\ last'.out = "failure" =>
                     /\ episodes'[id].status = episodes[id].status
                     /\ episodes'[id].error_count = episodes[id].error_count + 1
       /\ (batch.pc = "loop" /\ last'.out = "done") =>
             last'.n = batch.processed /\ last'.failed = batch.failed]_vars

\* C12: a command that ends with a configuration or input error - retry
\* without --episode-id and --all, mark-processed without --episode-id and
\* --podcast, either of them for an episode id that does not exist, export or
\* write with a --date that is not a date - leaves every episode as it was.
C12_InputErrorNoEffect ==
    /\ [][(/\ last'.op \in {"retry", "mark_processed", "export", "write"}
           /\ last'.out \in {"usage", "notfound", "invalid date"})
             => episodes' = episodes /\ columns' = columns]_vars
    /\ [](Migrated =>
            /\ \A reset_errors \in BOOLEAN, all \in BOOLEAN :
                  /\ retry_report(episodes, NoId, FALSE, reset_errors).out = "usage"
                  /\ retry(episodes, NoId, FALSE, reset_errors) = episodes
                  /\ retry_report(episodes, Len(episodes) + 1, all, reset_errors).out = "notfound"
                  /\ retry(episodes, Len(episodes) + 1, all, reset_errors) = episodes
            /\ \A reason \in MarkReasons, podcast \in PodcastFilters :
                  /\ mark_processed_report(episodes, NoId, "", reason).out = "usage"
                  /\ mark_processed(episodes, NoId, "", reason) = episodes
                  /\ mark_processed_report(episodes, Len(episodes) + 1, podcast, reason).out = "notfound"
                  /\ mark_processed(episodes, Len(episodes) + 1, podcast, reason) = episodes
            /\ \A date \in {"2023-02-29", "2024-13-01", "15/01/2024", "2024-01"}, found \in BOOLEAN :
                  /\ date_report("export", date, found).out = "invalid date"
                  /\ date_report("write", date, found).out = "invalid date")

\* export has just refused a date, over a store with an episode with errors.
C12_Witness ==
    /\ last.op = "export" /\ last.out = "invalid date"
    /\ \E id \in Ids : episodes[id].error_count > 0 /\ episodes[id].status = "transcribed"

C14_EligibleWhenInvoked ==
    [][Invoked(last') =>
          /\ BatchStep =>
                Eligible(episodes[Head(batch.queue).id], batch.stage, batch.max_retries)
          /\ last'.op = "transcribe" =>
                \A id \in Ids, skip_errors \in BOOLEAN, max_retries \in RetryCeilings, outcome \in Outcomes :
                    TranscribeOneWith(id, skip_errors, max_retries, outcome)
                        => Eligible(episodes[id], "transcribe", max_retries)
          /\ last'.op = "digest" =>
                \A id \in Ids, skip_errors \in BOOLEAN, max_retries \in RetryCeilings, outcome \in Outcomes :
                    DigestOneWith(id, skip_errors, max_retries, outcome)
                        => Eligible(episodes[id], "digest", max_retries)]_vars

\* The failures among the executor's answers for one episode.
Failures(log, id) == SelectSeq(log, LAMBDA ev : ev.id = id /\ ~ev.ok)

\* C15: when every batch run has the ceiling R and there is no recovery
\* operation, the executor fails on an episode R times at most, each failure
\* is one of its error_count, which does not exceed R; an episode on which it
\* has only failed has been attempted R times at most; and once error_count
\* has reached R no step of a batch run attempts or changes the episode.
C15_BoundedAttempts ==
    /\ [](\A id \in Ids :
             /\ Len(Failures(trail, id)) = episodes[id].error_count
             /\ episodes[id].error_count <= FixedCeiling
             /\ Failures(trail, id) = TrailOf(id) => Len(TrailOf(id)) <= FixedCeiling)
    /\ [][\A id \in Ids :
             episodes[id].error_count >= FixedCeiling =>
                /\ episodes'[id] = episodes[id]
                /\ SelectSeq(trail', LAMBDA ev : ev.id = id) = TrailOf(id)]_vars

\* Batch runs have failed on an episode up to the ceiling, and a further run
\* of the stage has ended without an attempt.
C15_Witness ==
    /\ last.op = "digest_all" /\ last.out = "done" /\ last.n = 0 /\ last.failed = 0
    /\ \E id \in Ids : /\ episodes[id].status = "transcribed"
                       /\ episodes[id].error_count = FixedCeiling
                       /\ Len(TrailOf(id)) = FixedCeiling + 1

\* The episodes mark-processed --podcast is for: those with errors whose
\* podcast title the filter matches.
MarkTargets(eps, podcast) ==
    {id \in 1..Len(eps) : /\ eps[id].error_count > 0
                          /\ PodcastMatches(podcast, eps[id].podcast_title)}

BatchEligible(eps, stage, skip_errors, max_retries) ==
    {id \in 1..Len(eps) : EligibleFor(eps[id], stage, skip_errors, max_retries)}

\* The episode is in no automatic batch of either stage under the ceiling.
ExcludedAt(eps, id, max_retries) ==
    \A skip_errors \in BOOLEAN :
        /\ id \notin Range(transcribe_selection(eps, skip_errors, max_retries))
        /\ \A stage \in Stages : id \notin BatchEligible(eps, stage, skip_errors, max_retries)

\* C17: retry without --reset-errors, of one episode or of all with errors,
\* sets the status of each episode it targets to 'downloaded' and changes
\* nothing else: error_count, last_error and error_timestamp stay.  So an
\* episode with error_count at or above a ceiling is in no automatic batch
\* under that ceiling after such a retry, and after a retry with
\* --reset-errors it is in the transcription batch of any ceiling above 0.
C17_RetryKeepsErrors ==
    Migrated =>
       /\ \A id \in Ids :
             LET after == retry(episodes, id, FALSE, FALSE)
                 reset == retry(episodes, id, FALSE, TRUE)
             IN /\ after = [episodes EXCEPT ![id].status = "downloaded"]
                /\ \A max_retries \in RetryCeilings \cup {FixedCeiling} :
                      /\ episodes[id].error_count >= max_retries
                            => ExcludedAt(after, id, max_retries)
                      /\ max_retries > 0 =>
                            \A skip_errors \in BOOLEAN :
                               id \in Range(transcribe_selection(reset, skip_errors, max_retries))
       /\ LET after == retry(episodes, NoId, TRUE, FALSE)
          IN /\ Len(after) = Len(episodes)
             /\ \A id \in Ids :
                   /\ after[id] = IF episodes[id].error_count > 0
                                  THEN [episodes[id] EXCEPT !.status = "downloaded"]
                                  ELSE episodes[id]
                   /\ \A max_retries \in RetryCeilings \cup {FixedCeiling} :
                         (episodes[id].error_count > 0 /\ episodes[id].error_count >= max_retries)
                            => ExcludedAt(after, id, max_retries)

\* retry without --reset-errors has just rewound an episode whose error_count
\* is at the default ceiling.
C17_Witness ==
    /\ last.op = "retry" /\ ~last.flag /\ last.out = "ready"
    /\ \E id \in Ids : /\ episodes[id].status = "downloaded"
                       /\ episodes[id].error_count >= DefaultMaxRetries
                       /\ episodes[id].last_error # NULL

\* The batch run stops in this step, at its end or terminated before it.
BatchStops == batch.pc = "loop" /\ batch'.pc = "idle"

\* The episodes a run of the stage with these options would hand to the
\* executor, each taken alone: those its listing holds and its loop does not
\* pass over.
Attempts(eps, stage, skip_errors, max_retries) ==
    LET success == CHOOSE outcome \in Outcomes : outcome.ok
    IN IF stage = "transcribe"
       THEN {id \in Range(transcribe_selection(eps, skip_errors, max_retries)) :
                transcribe_all_pending_answer(eps, id, skip_errors, max_retries, success) = "success"}
       ELSE {id \in Range(digest_selection(eps)) :
                digest_answer(eps, [id |-> id, error_count |-> eps[id].error_count],
                              skip_errors, max_retries, success) = "success"}

\* The batch has advanced the episode.
Advanced(before, after, stage) ==
    after = [before EXCEPT !.status = NextStatus(stage)]

\* The episode carries one more failure than before, and nothing else differs.
FailedOnce(before, after) ==
    /\ after.error_count = before.error_count + 1
    /\ after.last_error # NULL /\ after.error_timestamp # NULL
    /\ after = [before EXCEPT !.error_count = after.error_count,
                              !.last_error = after.last_error,
                              !.error_timestamp = after.error_timestamp]

\* When a batch run stops, at whatever point: each episode is advanced, or
\* has one more failure, or is as the batch found it, the first two only for
\* episodes the run was to attempt.
StopsClean ==
    LET found == trail
        was == Attempts(found, batch.stage, batch.skip_errors, batch.max_retries)
    IN /\ Len(episodes) = Len(found)
       /\ \A id \in Ids :
             \/ episodes[id] = found[id]
             \/ id \in was /\ Advanced(found[id], episodes[id], batch.stage)
             \/ id \in was /\ FailedOnce(found[id], episodes[id])

\* C18, as amended: when a batch run stops, terminated or not, every episode
\* is advanced, or has exactly one more failure, or is as the batch found
\* it; a run of the same stage and options then attempts exactly the
\* episodes the first was to attempt that were not advanced and are still
\* eligible under the options (below the ceiling and, with --skip-errors,
\* without errors), and none of the advanced ones.
C18_ResumeStillEligible ==
    [][BatchStops =>
          LET found == trail
              was == Attempts(found, batch.stage, batch.skip_errors, batch.max_retries)
              again == Attempts(episodes', batch.stage, batch.skip_errors, batch.max_retries)
          IN /\ episodes' = episodes
             /\ StopsClean
             /\ again = {id \in was :
                            /\ ~Advanced(found[id], episodes[id], batch.stage)
                            /\ episodes[id].error_count < batch.max_retries
                            /\ batch.skip_errors => episodes[id].error_count = 0}
             /\ \A id \in was :
                   Advanced(found[id], episodes[id], batch.stage) => id \notin again]_vars

\* C18 as stated: ... a run of the same stage and options then attempts
\* exactly the episodes the first was to attempt that were not advanced and
\* are still below the ceiling.
C18_ResumeBelowCeiling ==
    [][BatchStops =>
          LET found == trail
              was == Attempts(found, batch.stage, batch.skip_errors, batch.max_retries)
              again == Attempts(episodes', batch.stage, batch.skip_errors, batch.max_retries)
          IN /\ StopsClean
             /\ again = {id \in was :
                            /\ ~Advanced(found[id], episodes[id], batch.stage)
                            /\ episodes[id].error_count < batch.max_retries}]_vars

\* A batch run has been terminated after a failure on one episode and before
\* it came to another, which is as the batch found it.
C18_Witness ==
    /\ last.out = "terminated" /\ Len(trail) = Len(episodes)
    /\ \E id \in Ids : FailedOnce(trail[id], episodes[id])
    /\ \E id \in Ids : /\ episodes[id] = trail[id]
                       /\ episodes[id].status = (IF last.op = "digest_all" THEN "transcribed"
                                                 ELSE "downloaded")

====
